---- MODULE Spec2Model ----
(***************************************************************************)
(* Model of bwf-calendar-bot.py: the script that scrapes the BWF corporate *)
(* calendar page, keeps the top-tier tournaments, resolves their date      *)
(* ranges and creates the missing all-day events in a Google calendar.     *)
(*                                                                         *)
(* Text is modelled as a sequence of fragments (words, single spaces,      *)
(* numbers); a substring test is a test for a contiguous run of fragments. *)
(* A date string is a sequence of date tokens, the whitespace between them *)
(* left implicit (dateutil skips it).  Dates are records [y, m, d].        *)
(***************************************************************************)
EXTENDS Integers, Sequences, FiniteSets, TLC

\* ------------------------------------------------------------------ bounds
MaxRows == 2        \* table rows of the page, all sections together
MaxSections == 1    \* month sections of the page
MaxRuns == 2        \* executions of the script against the same calendar
MaxOutages == 1     \* service errors the calendar service answers with

\* --------------------------------------------------------------- constants
\* current_year = '2025'
current_year == 2025

None == -1          \* Python's None for an unset index, year, month, day or hour

\* ------------------------------------------------------------------- dates
IsLeap(y) == (y % 4 = 0 /\ y % 100 # 0) \/ y % 400 = 0

\* calendar.monthrange(y, m)[1]
DaysInMonth(y, m) ==
    IF m \in {4, 6, 9, 11} THEN 30
    ELSE IF m = 2 THEN (IF IsLeap(y) THEN 29 ELSE 28)
    ELSE 31

Date(y, m, d) == [y |-> y, m |-> m, d |-> d]

ValidDate(dt) ==
    /\ dt.y >= 1
    /\ dt.m \in 1..12
    /\ dt.d >= 1
    /\ dt.d <= DaysInMonth(dt.y, dt.m)

\* date.__lt__
DateLt(a, b) ==
    \/ a.y < b.y
    \/ a.y = b.y /\ a.m < b.m
    \/ a.y = b.y /\ a.m = b.m /\ a.d < b.d

DateLe(a, b) == a = b \/ DateLt(a, b)

\* end_date + datetime.timedelta(days=1)
AddOneDay(dt) ==
    IF dt.d < DaysInMonth(dt.y, dt.m) THEN Date(dt.y, dt.m, dt.d + 1)
    ELSE IF dt.m < 12 THEN Date(dt.y, dt.m + 1, 1)
    ELSE Date(dt.y + 1, 1, 1)

\* A variant of AddOneMonth that keeps the year when it leaves December
AddOneMonthSameYear(dt) ==
    IF dt.m = 12 THEN Date(dt.y, 1, dt.d)
    ELSE Date(dt.y, dt.m + 1,
              IF dt.d <= DaysInMonth(dt.y, dt.m + 1) THEN dt.d
              ELSE DaysInMonth(dt.y, dt.m + 1))

\* end_date += relativedelta(months=1): the next month, the day clamped to
\* the length of that month
AddOneMonth(dt) ==
    LET ny == IF dt.m = 12 THEN dt.y + 1 ELSE dt.y
        nm == IF dt.m = 12 THEN 1 ELSE dt.m + 1
        dim == DaysInMonth(ny, nm)
    IN  Date(ny, nm, IF dt.d > dim THEN dim ELSE dt.d)

\* ------------------------------------------------------------- date tokens
NumTok(v, n) == [k |-> "num", v |-> v, len |-> n]
MonTok(m) == [k |-> "mon", v |-> m, len |-> 0]
WordTok == [k |-> "word", v |-> 0, len |-> 0]
DashTok == [k |-> "dash", v |-> 0, len |-> 0]

DayTok(d) == NumTok(d, IF d < 10 THEN 1 ELSE 2)
YearTok == NumTok(current_year, 4)

\* any(c.isalpha() for c in s)
HasAlpha(s) == \E i \in 1..Len(s) : s[i].k \in {"mon", "word"}

\* s.split('-'): the parts between the hyphens
RECURSIVE SplitDash(_)
SplitDash(s) ==
    IF \A i \in 1..Len(s) : s[i].k # "dash" THEN << s >>
    ELSE LET p == CHOOSE i \in 1..Len(s) :
                      /\ s[i].k = "dash"
                      /\ \A j \in 1..(i - 1) : s[j].k # "dash"
         IN  << SubSeq(s, 1, p - 1) >> \o SplitDash(SubSeq(s, p + 1, Len(s)))

\* ------------------------------------------------- dateutil.parser.parse
\* _ymd.append(val, label): a value above 100 is a year; a second month or a
\* second year raises ValueError
YmdAppend(st, val, label) ==
    LET lab == IF val > 100 THEN "Y" ELSE label
        n == Len(st.ymd) + 1
    IN  [st EXCEPT
            !.ymd = Append(@, val),
            !.mstridx = IF lab = "M" /\ @ = None THEN n ELSE @,
            !.ystridx = IF lab = "Y" /\ @ = None THEN n ELSE @,
            !.err = \/ @
                    \/ lab = "M" /\ st.mstridx # None
                    \/ lab = "Y" /\ st.ystridx # None]

\* _parse_numeric_token: with three date members already read, a token of
\* two or four digits is taken as HH[MM]; any other number followed by
\* whitespace or by the end of the string is a year, month or day
ParseNumericToken(st, tok) ==
    IF Len(st.ymd) = 3 /\ tok.len \in {2, 4} /\ st.hour = None
    THEN [st EXCEPT
             !.hour = IF tok.len = 4 THEN tok.v \div 100 ELSE tok.v,
             !.minute = IF tok.len = 4 THEN tok.v % 100 ELSE @]
    ELSE YmdAppend(st, tok.v, "")

\* one round of the token loop of parser._parse: a month name is appended
\* with label M, a hyphen is a jump word, any other word raises ValueError
ParseToken(st, tok) ==
    IF st.err THEN st
    ELSE IF tok.k = "num" THEN ParseNumericToken(st, tok)
    ELSE IF tok.k = "mon" THEN YmdAppend(st, tok.v, "M")
    ELSE IF tok.k = "dash" THEN st
    ELSE [st EXCEPT !.err = TRUE]

RECURSIVE ParseTokens(_, _, _)
ParseTokens(st, s, i) ==
    IF i > Len(s) THEN st ELSE ParseTokens(ParseToken(st, s[i]), s, i + 1)

\* _ymd.resolve_ymd(yearfirst=False, dayfirst=False), to [y, m, d, err].
\* Three members of which fewer than two are labelled need two unlabelled
\* numbers in one string, which no string built by create_calendar_events
\* from one day number per part holds: that branch is left as an error.
ResolveYmd(st) ==
    LET ymd == st.ymd
        n == Len(ymd)
        nstr == (IF st.ystridx # None THEN 1 ELSE 0)
                + (IF st.mstridx # None THEN 1 ELSE 0)
        R(y, m, d) == [y |-> y, m |-> m, d |-> d, err |-> FALSE]
        Bad == [y |-> None, m |-> None, d |-> None, err |-> TRUE]
    IN  IF (n = nstr /\ n > 0) \/ (n = 3 /\ nstr = 2)
        THEN \* _resolve_from_stridxs
             R(IF st.ystridx # None THEN ymd[st.ystridx] ELSE None,
               IF st.mstridx # None THEN ymd[st.mstridx] ELSE None,
               IF n = 3
               THEN ymd[CHOOSE i \in 1..3 : i # st.ystridx /\ i # st.mstridx]
               ELSE None)
        ELSE IF n > 3 \/ n = 0 THEN Bad
        ELSE IF n = 1 \/ (st.mstridx # None /\ n = 2)
        THEN LET other == IF st.mstridx # None THEN ymd[3 - st.mstridx]
                          ELSE ymd[1]
             IN  R(IF other > 31 THEN other ELSE None,
                   IF st.mstridx # None THEN ymd[st.mstridx] ELSE None,
                   IF other > 31 THEN None ELSE other)
        ELSE IF n = 2
        THEN IF ymd[1] > 31 THEN R(ymd[1], ymd[2], None)
             ELSE IF ymd[2] > 31 THEN R(ymd[2], ymd[1], None)
             ELSE R(None, ymd[1], ymd[2])
        ELSE Bad

NoDate == [ok |-> FALSE, date |-> Date(0, 0, 0)]

\* datetime.replace(**repl): an impossible date or time of day raises
DateOrFail(dt, st) ==
    IF /\ ValidDate(dt)
       /\ (st.hour = None \/ st.hour \in 0..23)
       /\ st.minute \in 0..59
    THEN [ok |-> TRUE, date |-> dt]
    ELSE NoDate

\* parser._build_naive, the year y and the month m settled: a day the string
\* does not give is the default's, or the last of the month when the
\* default's is past the end of the month
BuildNaiveIn(y, m, r, st, default) ==
    DateOrFail(Date(y, m,
                    IF r.d # None THEN r.d
                    ELSE IF m \in 1..12 /\ default.d > DaysInMonth(y, m)
                    THEN DaysInMonth(y, m)
                    ELSE default.d),
               st)

\* parser._build_naive: the fields the string does not give are the default's
BuildNaive(r, st, default) ==
    IF r.err THEN NoDate
    ELSE BuildNaiveIn(IF r.y = None THEN default.y ELSE r.y,
                      IF r.m = None THEN default.m ELSE r.m,
                      r, st, default)

ParseResult(st, default) ==
    IF st.err THEN NoDate ELSE BuildNaive(ResolveYmd(st), st, default)

\* parser.parse(timestr).date(), the default being datetime.now().
\* Result: [ok, date]; ok = FALSE stands for ParserError.
ParseDate(s, default) ==
    ParseResult(ParseTokens([ymd |-> << >>, ystridx |-> None, mstridx |-> None,
                             hour |-> None, minute |-> 0, err |-> FALSE],
                            s, 1),
                default)

\* --------------------------------------------------- date range resolver
NoRange == [ok |-> FALSE, start |-> Date(0, 0, 0), end |-> Date(0, 0, 0)]

PairOf(ps, pe) ==
    IF ps.ok /\ pe.ok THEN [ok |-> TRUE, start |-> ps.date, end |-> pe.date]
    ELSE NoRange

\* lines 139-142: the end part with the month and the year when it holds no
\* letter, with the year alone when it holds one
ParseEnd(end_part, month, default) ==
    IF ~HasAlpha(end_part)
    THEN ParseDate(end_part \o month \o << YearTok >>, default)
    ELSE ParseDate(end_part \o << YearTok >>, default)

\* lines 131-142 and 147-148: the two dates as parsed
ParsedParts(date_str, date_parts, month, default) ==
    IF Len(date_parts) > 1
    THEN PairOf(ParseDate(date_parts[1] \o month \o << YearTok >>, default),
                ParseEnd(date_parts[2], month, default))
    ELSE PairOf(ParseDate(date_str, default), ParseDate(date_str, default))

ParsedStr(date_str, month, default) ==
    ParsedParts(date_str, SplitDash(date_str), month, default)

\* lines 129-130: the date text, the month and the year in one string
ParsedDates(dates, month, default) ==
    ParsedStr(dates \o month \o << YearTok >>, month, default)

\* lines 144-145 and 150: an end before the start is moved one month on;
\* endx is end_date_exclusive
WrapCorrected(p) ==
    IF ~p.ok
    THEN [ok |-> FALSE, start |-> p.start, end |-> p.end, endx |-> p.end]
    ELSE IF DateLt(p.end, p.start)
    THEN [ok |-> TRUE, start |-> p.start, end |-> AddOneMonth(p.end),
          endx |-> AddOneDay(AddOneMonth(p.end))]
    ELSE [ok |-> TRUE, start |-> p.start, end |-> p.end,
          endx |-> AddOneDay(p.end)]

\* lines 129-150 of create_calendar_events: [ok, start, end, endx]; ok = FALSE
\* stands for the parser's exception
ResolveDates(dates, month, default) ==
    WrapCorrected(ParsedDates(dates, month, default))

\* -------------------------------------------------------------------- text
Space == " "

\* str.lower(), fragment by fragment
LowerWord(w) ==
    CASE w = "World" -> "world"
      [] w = "WORLD" -> "world"
      [] w = "Championships" -> "championships"
      [] w = "CHAMPIONSHIPS" -> "championships"
      [] w = "Junior" -> "junior"
      [] w = "Malaysia" -> "malaysia"
      [] w = "Open" -> "open"
      [] w = "Masters" -> "masters"
      [] w = "Sudirman" -> "sudirman"
      [] w = "Cup" -> "cup"
      [] w = "Super" -> "super"
      [] w = "SUPER" -> "super"
      [] w = "BWF" -> "bwf"
      [] w = "Tour" -> "tour"
      [] w = "Grade" -> "grade"
      [] w = "Final" -> "final"
      [] w = "Paris" -> "paris"
      [] w = "France" -> "france"
      [] w = "USD" -> "usd"
      [] w = "Prize" -> "prize"
      [] w = "Money:" -> "money:"
      [] w = "PRIZE MONEY" -> "prize money"
      [] OTHER -> w

Lower(s) == [i \in 1..Len(s) |-> LowerWord(s[i])]

\* needle in hay
Contains(needle, hay) ==
    \E i \in 1..(Len(hay) - Len(needle) + 1) :
        SubSeq(hay, i, i + Len(needle) - 1) = needle

\* str.strip() of leading and trailing whitespace fragments
RECURSIVE Strip(_)
Strip(s) ==
    IF s = << >> THEN s
    ELSE IF Head(s) = Space THEN Strip(Tail(s))
    ELSE IF s[Len(s)] = Space THEN Strip(SubSeq(s, 1, Len(s) - 1))
    ELSE s

\* s.replace(old, ""), old a single fragment
RemoveAll(s, old) == SelectSeq(s, LAMBDA f : f # old)

\* ------------------------------------------------------------ the scraper
name_keywords ==
    << << "sudirman" >>,
       << "world", Space, "championships" >>,
       << "world", Space, "tour", Space, "finals" >> >>

category_keyword == << "super" >>

\* A variant of Retained that compares the texts without folding their case
RetainedCaseSensitive(name, category) ==
    \/ Contains(category_keyword, category)
    \/ \E k \in 1..Len(name_keywords) : Contains(name_keywords[k], name)

\* line 107: the retention test of one row
Retained(name, category) ==
    \/ Contains(Lower(category_keyword), Lower(category))
    \/ \E k \in 1..Len(name_keywords) :
           Contains(Lower(name_keywords[k]), Lower(name))

\* lines 100-105: the prize money of the detail row that follows the row
PrizeMoney(row) ==
    IF ~row.detail \/ ~row.badge THEN << >>
    ELSE Strip(RemoveAll(row.badge_text, "PRIZE MONEY"))

\* lines 87-117: one table row under the heading `month`, appended to events
\* when it has seven columns and passes the retention test
\* lines 94-95: the text of the link of the name column, or of the column
RowName(row) == IF row.link THEN row.link_text ELSE row.cell_text

ScrapeRow(events, row, month) ==
    IF row.ncols < 7 THEN events
    ELSE IF Retained(RowName(row), row.category)
    THEN Append(events,
                [name |-> RowName(row), dates |-> row.dates, month |-> month,
                 country |-> row.country, city |-> row.city,
                 category |-> row.category,
                 prize_money |-> PrizeMoney(row)])
    ELSE events

RECURSIVE ScrapeRows(_, _, _, _)
ScrapeRows(events, rows, month, j) ==
    IF j > Len(rows) THEN events
    ELSE ScrapeRows(ScrapeRow(events, rows[j], month), rows, month, j + 1)

\* lines 80-86: the month sections in document order; a section without a
\* heading is skipped
RECURSIVE ScrapeSections(_, _, _)
ScrapeSections(events, sections, s) ==
    IF s > Len(sections) THEN events
    ELSE IF ~sections[s].h2 THEN ScrapeSections(events, sections, s + 1)
    ELSE ScrapeSections(
             ScrapeRows(events, sections[s].rows, sections[s].month, 1),
             sections, s + 1)

\* scrape_corporate_calendar: no events when the fetch fails or the page has
\* no #ajaxCalender element
ScrapeCorporateCalendar(e) ==
    IF ~e.fetch THEN << >>
    ELSE IF ~e.page.wrapper THEN << >>
    ELSE ScrapeSections(<< >>, e.page.sections, 1)

\* --------------------------------------------------- the calendar service
\* The search terms of a text: its words, case folded
Terms(s) == {LowerWord(s[i]) : i \in 1..Len(s)} \ {Space}

EventText(e) == e.summary \o e.location \o e.description

\* A variant of ListEvents that wants the event to start after timeMin
ListEventsStartingAfter(cal, q, timeMin, timeMax) ==
    {e \in cal : /\ Terms(q) \subseteq Terms(EventText(e))
                 /\ DateLt(timeMin, e.start)
                 /\ DateLt(e.start, timeMax)}

\* service.events().list(q=, timeMin=, timeMax=).execute()['items']: the
\* events whose text holds every term of q, that end after timeMin and start
\* before timeMax (both stamps are midnights, so dates compare as given)
ListEvents(cal, q, timeMin, timeMax) ==
    {e \in cal : /\ Terms(q) \subseteq Terms(EventText(e))
                 /\ DateLt(timeMin, e.end)
                 /\ DateLt(e.start, timeMax)}

\* The service refuses a list request whose timeMax is not after its timeMin
EmptyWindow(timeMin, timeMax) == ~DateLt(timeMin, timeMax)

\* ------------------------------------------------- create_calendar_events
\* A variant of EventBody whose end.date is the last day itself
EventBodyInclusiveEnd(rec, r) ==
    [summary |-> rec.name \o << Space, "(" >> \o rec.category \o << ")" >>,
     location |-> rec.city \o << ",", Space >> \o rec.country,
     description |-> IF rec.prize_money # << >>
                     THEN << "Prize", Space, "Money:", Space >> \o rec.prize_money
                     ELSE << >>,
     start |-> r.start,
     end |-> r.end]

\* lines 165-173: the event body of a record with resolved dates r
EventBody(rec, r) ==
    [summary |-> rec.name \o << Space, "(" >> \o rec.category \o << ")" >>,
     location |-> rec.city \o << ",", Space >> \o rec.country,
     description |-> IF rec.prize_money # << >>
                     THEN << "Prize", Space, "Money:", Space >> \o rec.prize_money
                     ELSE << >>,
     start |-> r.start,
     end |-> r.endx]

\* the event as the calendar keeps it, under the identifier it is given
Stored(id, body) ==
    [id |-> id, summary |-> body.summary, location |-> body.location,
     description |-> body.description, start |-> body.start, end |-> body.end]

\* line 161: if existing_events.get('items')
AlreadyExists(items) == items # {}

\* A variant of AfterError that leaves the loop at the first error
AfterErrorAbort(i, n) == n + 1

\* lines 178-179: the handler logs the error and the loop goes on with the
\* record after position i of n
AfterError(i, n) == i + 1

\* lines 161-176: skip when the list holds an event, insert otherwise
Decide(r, items) ==
    IF AlreadyExists(items)
    THEN [outcome |-> "skipped", r |-> r, matched |-> Cardinality(items),
          outage |-> FALSE]
    ELSE [outcome |-> "created", r |-> r, matched |-> 0, outage |-> FALSE]

RoundOf(cal, rec, r) ==
    IF ~r.ok
    THEN [outcome |-> "date_error", r |-> r, matched |-> None, outage |-> FALSE]
    ELSE IF EmptyWindow(r.start, r.endx)
    THEN [outcome |-> "list_error", r |-> r, matched |-> None, outage |-> FALSE]
    ELSE Decide(r, ListEvents(cal, rec.name, r.start, r.endx))

\* What one round of the loop does with a record when the service has no
\* outage: a log entry [outcome, r, matched, outage]
Round(cal, rec, now) == RoundOf(cal, rec, ResolveDates(rec.dates, rec.month, now))

\* ------------------------------------------------------------------ state
VARIABLES
    env,          \* the process's surroundings: configuration, credentials, page
    calendar,     \* the events of the target calendar
    clock,        \* datetime.now() of the current execution
    run,          \* number of the current execution of the script
    pc,           \* position of the script
    exit_status,  \* exit status of the process, None while it runs
    events,       \* the list scrape_corporate_calendar returned
    i,            \* position of the loop of create_calendar_events
    log,          \* what the loop did with each record, this execution
    prevlog,      \* the same of the execution before
    calls,        \* requests sent this execution: [fetch, list, insert]
    outages       \* service errors met so far

vars == << env, calendar, clock, run, pc, exit_status, events, i, log,
           prevlog, calls, outages >>

NoCalls == [fetch |-> 0, list |-> 0, insert |-> 0]

\* ----------------------------------------------------------- input domains
SeqsUpTo(S, n) == UNION {[1..k -> S] : k \in 0..n}

RECURSIVE TotalRows(_)
TotalRows(sections) ==
    IF sections = << >> THEN 0
    ELSE Len(Head(sections).rows) + TotalRows(Tail(sections))

\* the pages of at most MaxSections sections and MaxRows rows, the rows taken
\* from rowSet and the headings from headSet
PagesOver(rowSet, headSet) ==
    LET Secs == {[h2 |-> h.h2, month |-> h.month, rows |-> rs] :
                    h \in headSet, rs \in SeqsUpTo(rowSet, MaxRows)}
    IN  {[wrapper |-> TRUE, sections |-> ss] :
            ss \in {x \in SeqsUpTo(Secs, MaxSections) : TotalRows(x) <= MaxRows}}

H2(m) == [h2 |-> TRUE, month |-> << MonTok(m) >>]
H2Empty == [h2 |-> TRUE, month |-> << >>]        \* <h2></h2>
NoH2 == [h2 |-> FALSE, month |-> << >>]

WC == << "World", Space, "Championships" >>
WCUpper == << "WORLD", Space, "CHAMPIONSHIPS" >>
WJC == << "World", Space, "Junior", Space, "Championships" >>
MO == << "Malaysia", Space, "Open" >>
MM == << "Malaysia", Space, "Masters" >>
SCup == << "Sudirman", Space, "Cup" >>
Super1000 == << "SUPER", Space, "1000" >>
Super100 == << "Super", Space, "100" >>
Grade1 == << "Grade", Space, "1" >>
BwfTour == << "BWF", Space, "Tour" >>

Single(d) == << DayTok(d) >>
Range(d1, d2) == << DayTok(d1), DashTok, DayTok(d2) >>
NamedRange(d1, m1, d2, m2) ==
    << DayTok(d1), MonTok(m1), DashTok, DayTok(d2), MonTok(m2) >>
EndNamedRange(d1, d2, m2) == << DayTok(d1), DashTok, DayTok(d2), MonTok(m2) >>
Tbc == << WordTok >>

TableRow(name, category, dates) ==
    [ncols |-> 7, country |-> << "France" >>, city |-> << "Paris" >>,
     link |-> TRUE, link_text |-> name, cell_text |-> name,
     category |-> category, dates |-> dates,
     detail |-> FALSE, badge |-> FALSE, badge_text |-> << >>]

WithPrize(row) ==
    [row EXCEPT !.detail = TRUE, !.badge = TRUE,
                !.badge_text = << "PRIZE MONEY", Space, "USD", Space, "475,000" >>]

Environment(id, creds, fetch, page) ==
    [calendarId |-> id, creds |-> creds, fetch |-> fetch, page |-> page]

Clocks == {Date(2026, 11, 6), Date(2026, 12, 31)}

\* events the calendar holds before the first execution: somebody's own entry
\* about the world championships, and the championships' event as an earlier
\* execution of the script left it
PreExisting ==
    {[id |-> << 0, 1 >>,
      summary |-> << "Watch", Space, "World", Space, "Championships", Space, "Final" >>,
      location |-> << >>, description |-> << >>,
      start |-> Date(current_year, 7, 9), end |-> Date(current_year, 7, 10)],
     Stored(<< 0, 2 >>,
            EventBody([name |-> WC, category |-> Grade1, city |-> << "Paris" >>,
                       country |-> << "France" >>, prize_money |-> << >>],
                      [start |-> Date(current_year, 7, 3),
                       endx |-> Date(current_year, 7, 10)]))}

\* the whole script, on pages of a few tournaments
PipelineRows ==
    {TableRow(WC, Grade1, Range(3, 9)),
     TableRow(WJC, Super100, Range(7, 12)),
     WithPrize(TableRow(MO, Super1000, Single(5)))}

PipelineEnvs ==
    LET pages == {p \in PagesOver(PipelineRows, {H2(7), H2Empty}) :
                     \A k \in 1..Len(p.sections) : p.sections[k].rows # << >>}
    IN  {Environment(id, creds, fetch, page) :
            id \in BOOLEAN, creds \in BOOLEAN, fetch \in BOOLEAN, page \in pages}
        \cup {Environment(TRUE, TRUE, TRUE, [wrapper |-> FALSE, sections |-> << >>])}

\* the date texts of one tournament under every kind of heading
ResolverDays == {1, 3, 18, 24, 28, 30, 31}
ResolverDateTexts ==
    {Single(d) : d \in ResolverDays}
    \cup {Range(d1, d2) : d1 \in ResolverDays, d2 \in ResolverDays}
    \cup {NamedRange(d1, mm[1], d2, mm[2]) :
             d1 \in {28, 31}, d2 \in {3, 30}, mm \in {<< 7, 8 >>, << 12, 1 >>}}
    \cup {NamedRange(3, m, 30, m) : m \in {1, 12}}
    \cup {EndNamedRange(d1, d2, m2) : d1 \in {28}, d2 \in {3}, m2 \in {1, 8}}
    \cup {Tbc}

ResolverEnvs ==
    {Environment(TRUE, TRUE, TRUE,
                 [wrapper |-> TRUE,
                  sections |-> << [h2 |-> TRUE, month |-> h.month,
                                   rows |-> << TableRow(MO, Super1000, dt) >>] >>]) :
        h \in {H2Empty, H2(1), H2(2), H2(7), H2(8), H2(12)},
        dt \in ResolverDateTexts}

\* the rows the extractor keeps or drops
ExtractorRows ==
    {TableRow(MO, Super1000, Single(5)),
     TableRow(MM, BwfTour, Single(5)),
     TableRow(WCUpper, BwfTour, Range(25, 31)),
     TableRow(WJC, Grade1, Single(5)),
     [TableRow(MO, Super100, Single(5)) EXCEPT !.ncols = 6],
     [WithPrize(TableRow(SCup, Grade1, Tbc)) EXCEPT
         !.link = FALSE, !.link_text = << >>]}

ExtractorEnvs ==
    {Environment(TRUE, TRUE, TRUE, page) :
        page \in PagesOver(ExtractorRows, {H2(7), NoH2})}

\* ------------------------------------------------------------------- steps
InitWith(envs, calendars, clocks) ==
    /\ env \in envs
    /\ calendar \in calendars
    /\ clock \in clocks
    /\ run = 1
    /\ pc = "load"
    /\ exit_status = None
    /\ events = << >>
    /\ i = 1
    /\ log = << >>
    /\ prevlog = << >>
    /\ calls = NoCalls
    /\ outages = 0

Init == InitWith(PipelineEnvs, {{}} \cup {{e} : e \in PreExisting},
                 {Date(2026, 11, 6)})

\* lines 26-31: the module reads its configuration; without a calendar
\* identifier it raises ValueError, which nothing catches
LoadConfig ==
    /\ pc = "load"
    /\ IF env.calendarId
       THEN pc' = "main" /\ UNCHANGED exit_status
       ELSE pc' = "exit" /\ exit_status' = 1
    /\ UNCHANGED << env, calendar, clock, run, events, i, log, prevlog, calls,
                    outages >>

\* lines 186-187 and 38-49: get_authenticated_service; it raises again what
\* the credentials raise, the handler of lines 194-195 logs it and the
\* script ends
Authenticate ==
    /\ pc = "main"
    /\ IF env.creds
       THEN pc' = "scrape" /\ UNCHANGED exit_status
       ELSE pc' = "exit" /\ exit_status' = 0
    /\ UNCHANGED << env, calendar, clock, run, events, i, log, prevlog, calls,
                    outages >>

\* lines 188-193: scrape_corporate_calendar, then the loop when it found
\* tournaments and the end of the script when it found none
Scrape ==
    /\ pc = "scrape"
    /\ events' = ScrapeCorporateCalendar(env)
    /\ calls' = [calls EXCEPT !.fetch = @ + 1]
    /\ IF events' # << >>
       THEN pc' = "create" /\ UNCHANGED exit_status
       ELSE pc' = "exit" /\ exit_status' = 0
    /\ i' = 1
    /\ UNCHANGED << env, calendar, clock, run, log, prevlog, outages >>

InLoop == pc = "create" /\ i <= Len(events)

ThisRound == {Round(calendar, events[i], clock)}

\* lines 129-150 raise: the date text does not parse
DateError ==
    /\ InLoop
    /\ \E rd \in ThisRound :
          /\ rd.outcome = "date_error"
          /\ log' = Append(log, rd)
    /\ i' = AfterError(i, Len(events))
    /\ UNCHANGED << env, calendar, clock, run, pc, exit_status, events,
                    prevlog, calls, outages >>

\* lines 152-159 raise: the list request fails, for an empty time window or
\* for an outage of the service
ListError ==
    /\ InLoop
    /\ \E rd \in ThisRound :
          /\ rd.r.ok
          /\ \/ /\ rd.outcome = "list_error"
                /\ log' = Append(log, rd)
                /\ UNCHANGED outages
             \/ /\ rd.outcome # "list_error"
                /\ outages < MaxOutages
                /\ outages' = outages + 1
                /\ log' = Append(log, [rd EXCEPT !.outcome = "list_error",
                                                 !.matched = None,
                                                 !.outage = TRUE])
    /\ calls' = [calls EXCEPT !.list = @ + 1]
    /\ i' = AfterError(i, Len(events))
    /\ UNCHANGED << env, calendar, clock, run, pc, exit_status, events,
                    prevlog >>

\* lines 161-163: an event matches, the record is skipped
Skip ==
    /\ InLoop
    /\ \E rd \in ThisRound :
          /\ rd.outcome = "skipped"
          /\ log' = Append(log, rd)
    /\ calls' = [calls EXCEPT !.list = @ + 1]
    /\ i' = i + 1
    /\ UNCHANGED << env, calendar, clock, run, pc, exit_status, events,
                    prevlog, outages >>

\* lines 165-176: no event matches, the event is inserted
Insert ==
    /\ InLoop
    /\ \E rd \in ThisRound :
          /\ rd.outcome = "created"
          /\ calendar' = calendar \cup
                 {Stored(<< run, i >>, EventBody(events[i], rd.r))}
          /\ log' = Append(log, rd)
    /\ calls' = [calls EXCEPT !.list = @ + 1, !.insert = @ + 1]
    /\ i' = i + 1
    /\ UNCHANGED << env, clock, run, pc, exit_status, events, prevlog,
                    outages >>

\* line 175 raises: the insert request fails, nothing is stored
InsertError ==
    /\ InLoop
    /\ \E rd \in ThisRound :
          /\ rd.outcome = "created"
          /\ log' = Append(log, [rd EXCEPT !.outcome = "insert_error",
                                           !.outage = TRUE])
    /\ outages < MaxOutages
    /\ outages' = outages + 1
    /\ calls' = [calls EXCEPT !.list = @ + 1, !.insert = @ + 1]
    /\ i' = AfterError(i, Len(events))
    /\ UNCHANGED << env, calendar, clock, run, pc, exit_status, events,
                    prevlog >>

\* line 193: the loop is over, the script ends
Finish ==
    /\ pc = "create"
    /\ i > Len(events)
    /\ pc' = "exit"
    /\ exit_status' = 0
    /\ UNCHANGED << env, calendar, clock, run, events, i, log, prevlog, calls,
                    outages >>

\* the script is started again, later, on the same page and calendar
Rerun ==
    /\ pc = "exit"
    /\ run < MaxRuns
    /\ run' = run + 1
    /\ clock' \in {c \in Clocks : DateLe(clock, c)}
    /\ pc' = "load"
    /\ exit_status' = None
    /\ events' = << >>
    /\ i' = 1
    /\ prevlog' = log
    /\ log' = << >>
    /\ calls' = NoCalls
    /\ UNCHANGED << env, calendar, outages >>

Next ==
    \/ LoadConfig
    \/ Authenticate
    \/ Scrape
    \/ DateError
    \/ ListError
    \/ Skip
    \/ Insert
    \/ InsertError
    \/ Finish
    \/ Rerun

Spec == Init /\ [][Next]_vars

\* the script on one tournament, over the date texts
InitResolver == InitWith(ResolverEnvs, {{}}, Clocks)
SpecResolver == InitResolver /\ [][Next]_vars

\* the script on the pages that exercise the extractor
InitExtractor == InitWith(ExtractorEnvs, {{}}, {Date(2026, 11, 6)})
SpecExtractor == InitExtractor /\ [][Next]_vars

\* ------------------------------------------------------------ properties
Errors == {"date_error", "list_error", "insert_error"}

Min(a, b) == IF a < b THEN a ELSE b

RECURSIVE DaysBeforeMonth(_, _)
DaysBeforeMonth(y, m) ==
    IF m <= 1 THEN 0 ELSE DaysInMonth(y, m - 1) + DaysBeforeMonth(y, m - 1)

RECURSIVE DaysBeforeYear(_)
DaysBeforeYear(y) ==
    IF y <= current_year THEN 0
    ELSE (IF IsLeap(y - 1) THEN 366 ELSE 365) + DaysBeforeYear(y - 1)

\* the number of the day, counted from the first of January of current_year
DayOrdinal(dt) == DaysBeforeYear(dt.y) + DaysBeforeMonth(dt.y, dt.m) + dt.d

\* the events execution n inserted
InsertedBy(n) == {e \in calendar : e.id[1] = n}

\* the calendar as the current execution found it
CalendarBefore == {e \in calendar : e.id[1] # run}

\* an event without its identifier
Body(e) == [summary |-> e.summary, location |-> e.location,
            description |-> e.description, start |-> e.start, end |-> e.end]

Bodies(cal) == {Body(e) : e \in cal}

\* the loop is over and the script has ended, this execution
LoopDone == pc = "exit" /\ events # << >>

C2_FailureIsolation ==
    /\ pc = "create" => Len(log) = i - 1
    /\ LoopDone => Len(log) = Len(events) /\ exit_status = 0
    /\ \A k \in 1..Len(log) :
          /\ log[k].outcome \in Errors
             => ~\E e \in calendar : e.id = << run, k >>
          /\ log[k].outcome = "created"
             => log[k].matched = 0 /\ \E e \in calendar : e.id = << run, k >>
          /\ log[k].outcome = "skipped" => log[k].matched > 0

\* C2 witness: a failed record followed by a record that is inserted
C2_Witness ==
    /\ LoopDone
    /\ \E j, k \in 1..Len(log) :
          /\ j < k
          /\ log[j].outcome \in Errors
          /\ log[k].outcome = "created"

\* C3: the process ends with a status other than 0 exactly when the calendar
\* identifier is missing or the authentication fails, and then it has
\* fetched no page and sent no request to the calendar.
C3_ExitStatus ==
    pc = "exit" =>
        /\ exit_status # 0 <=> (~env.calendarId \/ ~env.creds)
        /\ (~env.calendarId \/ ~env.creds) => calls = NoCalls

\* the events of the calendar that are the event of record k as resolved to r
EventsFor(rec, r) ==
    {e \in calendar : /\ e.summary = EventBody(rec, r).summary
                      /\ e.start = r.start
                      /\ DayOrdinal(e.end) = DayOrdinal(r.end) + 1}

C4_Entry(k, entry, rec) ==
    /\ entry.outcome = "created" =>
          /\ entry.matched = 0
          /\ Cardinality({e \in calendar : e.id = << run, k >>}) = 1
          /\ \A e \in calendar : e.id = << run, k >> => e \in EventsFor(rec, entry.r)
    /\ entry.outcome = "skipped" =>
          /\ entry.matched > 0
          /\ ~\E e \in calendar : e.id = << run, k >>
    /\ entry.outcome \in {"created", "skipped"} =>
          ListEvents(calendar, rec.name, entry.r.start, entry.r.endx) # {}

\* C4 (what the loop does ensure): a record whose dates resolve and whose
\* requests do not fail gets exactly one new event, with summary "{name} ({category})", start.date
\* = startDate and end.date = endDate + 1 day, when no event of the calendar
\* matches its query, and none when one does; afterwards the calendar holds
\* an event that matches its query, and no two events the script inserted,
\* in any of its executions, have the same summary and dates.
C4_OneEventPerQuery ==
    /\ \A k \in 1..Len(log) : C4_Entry(k, log[k], events[k])
    /\ \A e1, e2 \in calendar :
          (/\ e1.id[1] >= 1
           /\ e2.id[1] >= 1
           /\ e1.summary = e2.summary
           /\ e1.start = e2.start
           /\ e1.end = e2.end)
          => e1 = e2

\* C4, its case: one record inserted, another skipped, the script run twice
C4_Witness ==
    /\ LoopDone
    /\ run >= 2
    /\ \E k \in 1..Len(prevlog) : prevlog[k].outcome = "created"
    /\ \E k \in 1..Len(log) : log[k].outcome = "skipped"

\* C4: once a record is processed without error, the calendar
\* holds exactly one event with its summary and its dates.
C4_ExactlyOneEvent ==
    \A k \in 1..Len(log) :
        log[k].outcome \in {"created", "skipped"}
        => Cardinality(EventsFor(events[k], log[k].r)) = 1

\* the calendar after create_calendar_events went through recs from position
\* k on, the positions named by ids and the dates as resolved in rs, the
\* service answering every request
RECURSIVE RunOver(_, _, _, _, _)
RunOver(cal, recs, rs, ids, k) ==
    IF k > Len(recs) THEN cal
    ELSE RunOver(IF RoundOf(cal, recs[k], rs[k]).outcome = "created"
                 THEN cal \cup {Stored(<< run, ids[k] >>,
                                       EventBody(recs[k], rs[k]))}
                 ELSE cal,
                 recs, rs, ids, k + 1)

Permuted(recs, perm) == [k \in 1..Len(recs) |-> recs[perm[k]]]

\* the dates of the records as this execution resolved them
Resolved == [k \in 1..Len(log) |-> log[k].r]

AllOrdersAgree ==
    \A perm \in Permutations(1..Len(events)) :
        Bodies(RunOver(CalendarBefore, Permuted(events, perm),
                       Permuted(Resolved, perm), perm, 1))
            = Bodies(calendar)

NoOutage == \A k \in 1..Len(log) : ~log[k].outage

\* the query of record a finds the event of record b
Finds(a, ra, b, rb) ==
    /\ ra.ok
    /\ rb.ok
    /\ DateLt(rb.start, rb.endx)
    /\ Terms(a.name) \subseteq
           Terms(b.name \o b.category \o b.city \o b.country \o b.prize_money)
           \cup {"(", ")", ",", "prize", "money:"}
    /\ DateLt(ra.start, rb.endx)
    /\ DateLt(rb.start, ra.endx)

\* no record's query finds the event of a different record of the list
Independent ==
    \A j, k \in 1..Len(events) :
        events[j] # events[k]
        => ~Finds(events[j], log[j].r, events[k], log[k].r)

\* C5 (what the loop does ensure): when the service answers every request
\* and no record's query finds the event of a different record of the list,
\* the calendar create_calendar_events leaves is the one every other order of
\* the records would have left.
C5_OrderInsensitive == (LoopDone /\ NoOutage /\ Independent) => AllOrdersAgree

\* C5, its case: two different records in the list, both inserted
C5_Witness ==
    /\ LoopDone
    /\ NoOutage
    /\ Independent
    /\ \E j, k \in 1..Len(log) :
          /\ j < k
          /\ events[j] # events[k]
          /\ log[j].outcome = "created"
          /\ log[k].outcome = "created"

\* C5: every order of the records leaves the same calendar.
C5_AnyOrder == (LoopDone /\ NoOutage) => AllOrdersAgree

\* the rows under a heading, in document order, each with its heading
RECURSIVE RowsUnderHeadings(_)
RowsUnderHeadings(sections) ==
    IF sections = << >> THEN << >>
    ELSE (IF Head(sections).h2
          THEN [j \in 1..Len(Head(sections).rows) |->
                   [row |-> Head(sections).rows[j], month |-> Head(sections).month]]
          ELSE << >>)
         \o RowsUnderHeadings(Tail(sections))

HasKeyword(text, keyword) ==
    \E a \in 1..Len(text), b \in 1..Len(text) :
        /\ b - a + 1 = Len(keyword)
        /\ \A j \in 1..Len(keyword) : LowerWord(text[a + j - 1]) = keyword[j]

Marquee ==
    {<< "sudirman" >>, << "world", " ", "championships" >>,
     << "world", " ", "tour", " ", "finals" >>}

ToKeep(c) ==
    /\ c.row.ncols >= 7
    /\ \/ HasKeyword(c.row.category, << "super" >>)
       \/ \E kw \in Marquee :
             HasKeyword(IF c.row.link THEN c.row.link_text ELSE c.row.cell_text, kw)

Shown(recs) ==
    [k \in 1..Len(recs) |->
        << recs[k].name, recs[k].category, recs[k].dates, recs[k].month >>]

ShownRows(cs) ==
    [k \in 1..Len(cs) |->
        << IF cs[k].row.link THEN cs[k].row.link_text ELSE cs[k].row.cell_text,
           cs[k].row.category, cs[k].row.dates, cs[k].month >>]

Scraped == calls.fetch = 1 /\ env.fetch /\ env.page.wrapper

\* C6: a row of seven columns or more under a month heading is in the result
\* of scrape_corporate_calendar exactly when its category holds 'super' or its
\* name holds 'sudirman', 'world championships' or 'world tour finals', upper
\* and lower case alike; the rows kept are in document order.
C6_RetentionFilter ==
    Scraped =>
        Shown(events)
            = ShownRows(SelectSeq(RowsUnderHeadings(env.page.sections), ToKeep))

\* C6 witness: a page of which one row is kept and another dropped
C6_Witness ==
    /\ Scraped
    /\ Len(events) >= 1
    /\ \E k \in 1..Len(RowsUnderHeadings(env.page.sections)) :
          /\ RowsUnderHeadings(env.page.sections)[k].row.ncols >= 7
          /\ ~ToKeep(RowsUnderHeadings(env.page.sections)[k])

IsNumericRange(dates) ==
    /\ Len(dates) = 3
    /\ dates[1].k = "num"
    /\ dates[2].k = "dash"
    /\ dates[3].k = "num"

IsMonthName(month) == Len(month) = 1 /\ month[1].k = "mon"

C7_Entry(rec, r) ==
    /\ (/\ IsNumericRange(rec.dates)
        /\ IsMonthName(rec.month)
        /\ 1 <= rec.dates[1].v
        /\ rec.dates[1].v <= rec.dates[3].v
        /\ rec.dates[3].v <= DaysInMonth(current_year, rec.month[1].v))
       => /\ r.ok
          /\ r.start = Date(current_year, rec.month[1].v, rec.dates[1].v)
          /\ r.end = Date(current_year, rec.month[1].v, rec.dates[3].v)
    /\ (r.ok /\ Len(rec.dates) = 1) => r.start = r.end

\* C7: a raw range "d1 - d2" of two day numbers of the record's month, d1 <=
\* d2, resolves to day d1 and day d2 of that month of current_year; a raw
\* range without separator resolves to one day; and an inserted event has
\* start.date = startDate and end.date = endDate + 1 day.
C7_SameMonthRange ==
    \A k \in 1..Len(log) :
        /\ C7_Entry(events[k], log[k].r)
        /\ \A e \in calendar :
              e.id = << run, k >>
              => /\ e.start = log[k].r.start
                 /\ DayOrdinal(e.end) = DayOrdinal(log[k].r.end) + 1

\* C7 witness: the event of a range "d1 - d2" is inserted
C7_Witness ==
    \E k \in 1..Len(log) :
        /\ IsNumericRange(events[k].dates)
        /\ IsMonthName(events[k].month)
        /\ events[k].dates[1].v < events[k].dates[3].v
        /\ log[k].outcome = "created"

IsNamedRange(dates) ==
    /\ Len(dates) = 5
    /\ dates[1].k = "num"
    /\ dates[2].k = "mon"
    /\ dates[3].k = "dash"
    /\ dates[4].k = "num"
    /\ dates[5].k = "mon"

C8_Entry(dates, entry) ==
    (/\ IsNamedRange(dates)
     /\ ValidDate(Date(current_year, dates[2].v, dates[1].v))
     /\ ValidDate(Date(current_year, dates[5].v, dates[4].v)))
    => /\ entry.outcome # "date_error"
       /\ entry.r.ok
       /\ entry.r.start = Date(current_year, dates[2].v, dates[1].v)
       /\ DateLe(entry.r.start, Date(current_year, dates[5].v, dates[4].v))
          => entry.r.end = Date(current_year, dates[5].v, dates[4].v)

\* C8: a raw range "d1 Mon1 - d2 Mon2" resolves, whatever the heading of its
\* section, to day d1 of Mon1 and day d2 of Mon2 of current_year, and the
\* record is reconciled, not skipped for its dates.
C8_NamedRange == \A k \in 1..Len(log) : C8_Entry(events[k].dates, log[k])

C9_Entry(p, r) ==
    p.ok =>
        /\ r.ok
        /\ r.start = p.start
        /\ IF DateLt(p.end, p.start)
           THEN /\ r.end.m = (p.end.m % 12) + 1
                /\ r.end.y = p.end.y + (IF p.end.m = 12 THEN 1 ELSE 0)
                /\ r.end.d = Min(p.end.d, DaysInMonth(r.end.y, r.end.m))
           ELSE r.end = p.end

\* C9 (amended): when the end as parsed is before the start as parsed, the
\* start is kept and the end is moved to the following month (January of the
\* next year after December), on the same day number or, when that month is
\* shorter, on its last day; otherwise neither date is changed.
C9_MonthWrap ==
    \A k \in 1..Len(log) :
        C9_Entry(ParsedDates(events[k].dates, events[k].month, clock), log[k].r)

\* C9 witness: a range whose end as parsed is before its start
C9_Witness ==
    \E k \in 1..Len(log) :
        /\ log[k].r.ok
        /\ DateLt(ParsedDates(events[k].dates, events[k].month, clock).end,
                  log[k].r.start)
        /\ log[k].outcome = "created"

C9_EntryAsClaimed(p, r) ==
    p.ok =>
        /\ r.start = p.start
        /\ IF DateLt(p.end, p.start)
           THEN /\ r.end.m = (p.end.m % 12) + 1
                /\ r.end.y = p.end.y + (IF p.end.m = 12 THEN 1 ELSE 0)
                /\ r.end.d = p.end.d
           ELSE r.end = p.end

\* C9 (as claimed): the end is moved to the same day number of the
\* following month.
C9_SameDayNextMonth ==
    \A k \in 1..Len(log) :
        C9_EntryAsClaimed(ParsedDates(events[k].dates, events[k].month, clock),
                          log[k].r)

\* C10: dates that resolve have their end on or after their start, so that
\* the window of the list request and the dates of an inserted event end
\* after they start.
C10_EndNotBeforeStart ==
    \A k \in 1..Len(log) :
        log[k].r.ok
        => /\ DateLe(log[k].r.start, log[k].r.end)
           /\ DateLt(log[k].r.start, log[k].r.endx)
====
